---- MODULE Spec2Model ----
(***************************************************************************)
(* Model of src/components/WebhookTester.tsx: the React component that     *)
(* posts one file to a webhook URL and shows the classified response.      *)
(*                                                                         *)
(* Strings whose characters the code inspects (header values, bodies,      *)
(* file names) are sequences of one-character strings.  Every handler is   *)
(* one action; the two awaits of sendWebhook split it into three steps.    *)
(* React flushes the state updates of an event handler before the next     *)
(* event is dispatched, so a handler always sees the state of the last     *)
(* render.                                                                 *)
(***************************************************************************)
EXTENDS Integers, Sequences, FiniteSets, TLC

VARIABLES webhookUrl, selectedFile, isLoading, response, isDragging,
          tasks, toasts, handles, saved, lastEvent

vars == <<webhookUrl, selectedFile, isLoading, response, isDragging,
          tasks, toasts, handles, saved, lastEvent>>

(* ---------------------------- bounds ----------------------------------- *)

\* cap on the number of sendWebhook invocations suspended at an await
MaxTasks == 2

(* ------------------------- string constants ---------------------------- *)

Null == <<"null">>

AppSlash == <<"a","p","p","l","i","c","a","t","i","o","n","/">>
JsonStr == <<"j","s","o","n">>
TextStr == <<"t","e","x","t">>
FilenameEq == <<"f","i","l","e","n","a","m","e","=">>
DefaultName == <<"d","o","w","n","l","o","a","d">>
Quote == "\""

CtPdf == <<"a","p","p","l","i","c","a","t","i","o","n","/","p","d","f">>
CtJson == <<"a","p","p","l","i","c","a","t","i","o","n","/","j","s","o","n">>
CtTextPlain == <<"t","e","x","t","/","p","l","a","i","n">>
CtPng == <<"i","m","a","g","e","/","p","n","g">>
CtAppText == <<"a","p","p","l","i","c","a","t","i","o","n","/","t","e","x","t">>
CtRelated == <<"m","u","l","t","i","p","a","r","t","/","r","e","l","a","t","e","d",";"," ","t","y","p","e","=","a","p","p","l","i","c","a","t","i","o","n","/","d","i","c","o","m">>

CdQuoted == <<"a","t","t","a","c","h","m","e","n","t",";"," ","f","i","l","e","n","a","m","e","=","\"","x",".","p","d","f","\"">>
CdBare == <<"a","t","t","a","c","h","m","e","n","t",";"," ","f","i","l","e","n","a","m","e","=","x",".","p","d","f">>
CdNoName == <<"a","t","t","a","c","h","m","e","n","t">>
CdEmptyName == <<"a","t","t","a","c","h","m","e","n","t",";"," ","f","i","l","e","n","a","m","e","=","\"","\"">>

XPdf == <<"x",".","p","d","f">>
BodyJsonOk == <<"{","\"","o","k","\"",":","t","r","u","e","}">>
BodyOops == <<"o","o","p","s">>

(* --------------------------- string helpers ---------------------------- *)

\* String.prototype.includes
Includes(s, sub) ==
  \E i \in 0..(Len(s) - Len(sub)) : SubSeq(s, i + 1, i + Len(sub)) = sub

\* last index of the longest run of non-quote characters starting at from
\* (from - 1 when the run is empty)
RunEnd(s, from) ==
  IF \E j \in from..Len(s) : s[j] = Quote
  THEN (CHOOSE j \in from..Len(s) :
          s[j] = Quote /\ \A k \in from..(j - 1) : s[k] # Quote) - 1
  ELSE Len(s)

\* variant: the optional opening quote is not skipped
CaptureStartKeepsQuote(s, i) == i + Len(FilenameEq)

\* does /filename="?([^"]+)"?/ match with its first character at index i
CaptureStart(s, i) ==
  LET p == i + Len(FilenameEq)
  IN  IF p <= Len(s) /\ s[p] = Quote THEN p + 1 ELSE p

MatchesAt(s, i) ==
  /\ i + Len(FilenameEq) - 1 <= Len(s)
  /\ SubSeq(s, i, i + Len(FilenameEq) - 1) = FilenameEq
  /\ RunEnd(s, CaptureStart(s, i)) >= CaptureStart(s, i)

\* disposition.match(/filename="?([^"]+)"?/): Null, or capture group 1 of
\* the leftmost match
FilenameMatch(s) ==
  IF \E i \in 1..Len(s) : MatchesAt(s, i)
  THEN LET i == CHOOSE i \in 1..Len(s) :
                  MatchesAt(s, i) /\ \A j \in 1..(i - 1) : ~MatchesAt(s, j)
       IN  SubSeq(s, CaptureStart(s, i), RunEnd(s, CaptureStart(s, i)))
  ELSE Null

(* ------------------------------ inputs --------------------------------- *)

Urls == {"", "https://a", "https://b"}
NullFile == "null"
Files == {"f1", "f2"}

CtName == "content-type"
CdName == "content-disposition"

NoHeaders == [n \in {} |-> <<>>]
Ct(v) == CtName :> v
CtCd(v, d) == (CtName :> v) @@ (CdName :> d)

\* responses the endpoint may give: [status, headers, body]
Resp(st, h, b) == [status |-> st, headers |-> h, body |-> b]

ServerResponses ==
  { Resp(200, Ct(CtJson), BodyJsonOk),
    Resp(200, Ct(CtJson), BodyOops),
    Resp(200, CtCd(CtPdf, CdQuoted), BodyOops),
    Resp(200, CtCd(CtPdf, CdBare), BodyOops),
    Resp(200, CtCd(CtPdf, CdNoName), BodyOops),
    Resp(200, CtCd(CtPdf, CdEmptyName), BodyOops),
    Resp(500, Ct(CtPdf), BodyOops),
    Resp(500, Ct(CtTextPlain), BodyOops),
    Resp(200, Ct(CtPng), BodyOops),
    Resp(200, Ct(CtAppText), BodyOops),
    Resp(200, CtCd(CtRelated, CdQuoted), BodyOops),
    Resp(404, NoHeaders, BodyOops) }

\* Headers.get
HeadersGet(h, name) == IF name \in DOMAIN h THEN h[name] ELSE Null

\* JSON.parse as performed by res.json(): <<value>>, or <<>> on SyntaxError
JsonParse(b) == IF b = BodyJsonOk THEN <<[ok |-> TRUE]>> ELSE <<>>

(* --------------------------- classification ---------------------------- *)

\* const contentType = res.headers.get('content-type') || ''
ContentTypeOf(res) ==
  LET v == HeadersGet(res.headers, CtName)
  IN  IF v = Null THEN <<>> ELSE v

IsFile(contentType) ==
  /\ Includes(contentType, AppSlash)
  /\ ~Includes(contentType, JsonStr)
  /\ ~Includes(contentType, TextStr)

\* which body reader sendWebhook awaits
ReaderOf(contentType) ==
  IF IsFile(contentType) THEN "blob"
  ELSE IF Includes(contentType, JsonStr) THEN "json"
  ELSE "text"

\* let fileName = ''; set only inside if (disposition)
FileNameOf(res) ==
  LET disposition == HeadersGet(res.headers, CdName)
  IN  IF disposition # Null /\ disposition # <<>>
      THEN (IF FilenameMatch(disposition) # Null
            THEN FilenameMatch(disposition) ELSE DefaultName)
      ELSE <<>>

\* value of data after a successful body read
DataOf(res) ==
  LET r == ReaderOf(ContentTypeOf(res))
  IN  [kind |-> r,
       raw  |-> IF r = "json" THEN <<>> ELSE res.body,
       json |-> IF r = "json" THEN JsonParse(res.body) ELSE <<>>]

\* the object handed to setResponse
WebhookResponse(res) ==
  [status |-> res.status,
   data |-> DataOf(res),
   headers |-> res.headers,
   isFile |-> IsFile(ContentTypeOf(res)),
   fileName |-> FileNameOf(res),
   contentType |-> ContentTypeOf(res)]

\* variant: a body that does not parse is stored as an empty value
ReadMustFailNever(res) == FALSE

\* can the awaited body reader reject on its own (res.json() on bad JSON)
ReadMustFail(res) ==
  ReaderOf(ContentTypeOf(res)) = "json" /\ JsonParse(res.body) = <<>>

(* ------------------------------- toasts -------------------------------- *)

NoToast == [title |-> "", description |-> "", variant |-> "", status |-> 0]
ValidationToast ==
  [title |-> "Erro",
   description |-> "Por favor, preencha a URL e selecione um arquivo",
   variant |-> "destructive", status |-> 0]
FailureToast ==
  [title |-> "Erro", description |-> "Falha ao enviar webhook",
   variant |-> "destructive", status |-> 0]
SuccessToast(st) ==
  [title |-> "Sucesso!", description |-> "Webhook enviado - Status: ",
   variant |-> "", status |-> st]

(* -------------------------------- state -------------------------------- *)

Init ==
  /\ webhookUrl = ""
  /\ selectedFile = NullFile
  /\ isLoading = FALSE
  /\ response = <<>>
  /\ isDragging = FALSE
  /\ tasks = <<>>
  /\ toasts = NoToast
  /\ handles = {}
  /\ saved = <<>>
  /\ lastEvent = [name |-> "init", task |-> <<>>]

\* trace of the handler or continuation that ran last, with the task it settled
Ev(n, t) == [name |-> n, task |-> t]

RemoveAt(s, i) == SubSeq(s, 1, i - 1) \o SubSeq(s, i + 1, Len(s))

(* --------------------------- form handlers ----------------------------- *)

\* variant: the pending request reads the URL field when it is sent
setWebhookUrlLive(v) ==
  /\ webhookUrl' = v
  /\ tasks' = [i \in 1..Len(tasks) |-> [tasks[i] EXCEPT !.url = v]]
  /\ lastEvent' = Ev("setUrl", <<>>)
  /\ UNCHANGED <<selectedFile, isLoading, response, isDragging,
                 toasts, handles, saved>>

setWebhookUrl(v) ==
  /\ webhookUrl' = v
  /\ lastEvent' = Ev("setUrl", <<>>)
  /\ UNCHANGED <<selectedFile, isLoading, response, isDragging, tasks,
                 toasts, handles, saved>>

handleDragOver ==
  /\ isDragging' = TRUE
  /\ lastEvent' = Ev("dragOver", <<>>)
  /\ UNCHANGED <<webhookUrl, selectedFile, isLoading, response, tasks,
                 toasts, handles, saved>>

handleDragLeave ==
  /\ isDragging' = FALSE
  /\ lastEvent' = Ev("dragLeave", <<>>)
  /\ UNCHANGED <<webhookUrl, selectedFile, isLoading, response, tasks,
                 toasts, handles, saved>>

\* files: the FileList of the event, a sequence of files
handleDrop(files) ==
  /\ isDragging' = FALSE
  /\ selectedFile' = IF Len(files) > 0 THEN files[1] ELSE selectedFile
  /\ lastEvent' = Ev("drop", <<>>)
  /\ UNCHANGED <<webhookUrl, isLoading, response, tasks, toasts, handles,
                 saved>>

handleFileSelect(files) ==
  /\ selectedFile' = IF Len(files) > 0 THEN files[1] ELSE selectedFile
  /\ lastEvent' = Ev("fileSelect", <<>>)
  /\ UNCHANGED <<webhookUrl, isLoading, response, isDragging, tasks, toasts,
                 handles, saved>>

FileLists == {<<>>} \cup {<<f>> : f \in Files}

(* ----------------------------- sendWebhook ----------------------------- *)

\* the request handed to fetch: the URL and the FormData with the file
Request(u, f) == [url |-> u, file |-> f, pc |-> "fetch", res |-> <<>>]

\* variant: only the URL is validated
sendWebhookUrlOnly ==
  IF webhookUrl = ""
  THEN /\ toasts' = ValidationToast
       /\ lastEvent' = Ev("validation", <<>>)
       /\ UNCHANGED <<webhookUrl, selectedFile, isLoading, response,
                      isDragging, tasks, handles, saved>>
  ELSE /\ Len(tasks) < MaxTasks
       /\ isLoading' = TRUE
       /\ tasks' = Append(tasks, Request(webhookUrl, selectedFile))
       /\ lastEvent' = Ev("submit", <<>>)
       /\ UNCHANGED <<webhookUrl, selectedFile, response, isDragging,
                      toasts, handles, saved>>

\* lines 58-76: validation, setIsLoading(true), fetch issued, first await
sendWebhook ==
  IF webhookUrl = "" \/ selectedFile = NullFile
  THEN /\ toasts' = ValidationToast
       /\ lastEvent' = Ev("validation", <<>>)
       /\ UNCHANGED <<webhookUrl, selectedFile, isLoading, response,
                      isDragging, tasks, handles, saved>>
  ELSE /\ Len(tasks) < MaxTasks
       /\ isLoading' = TRUE
       /\ tasks' = Append(tasks, Request(webhookUrl, selectedFile))
       /\ lastEvent' = Ev("submit", <<>>)
       /\ UNCHANGED <<webhookUrl, selectedFile, response, isDragging,
                      toasts, handles, saved>>

\* variant: no finally block
CatchFinallyNoReset(i) ==
  /\ toasts' = FailureToast
  /\ tasks' = RemoveAt(tasks, i)
  /\ UNCHANGED <<webhookUrl, selectedFile, isLoading, response, isDragging,
                 handles, saved>>

\* catch and finally blocks, lines 118-127
CatchFinally(i) ==
  /\ toasts' = FailureToast
  /\ isLoading' = FALSE
  /\ tasks' = RemoveAt(tasks, i)
  /\ UNCHANGED <<webhookUrl, selectedFile, response, isDragging, handles,
                 saved>>

\* variant: a rejected fetch clears the panel and shows a result without status
FetchRejectsAsEmpty(i) ==
  /\ tasks[i].pc = "fetch"
  /\ lastEvent' = Ev("fetchReject", <<tasks[i]>>)
  /\ response' = <<WebhookResponse(Resp(0, NoHeaders, <<>>))>>
  /\ toasts' = FailureToast
  /\ isLoading' = FALSE
  /\ tasks' = RemoveAt(tasks, i)
  /\ UNCHANGED <<webhookUrl, selectedFile, isDragging, handles, saved>>

\* the fetch of task i rejects
FetchRejects(i) ==
  /\ tasks[i].pc = "fetch"
  /\ lastEvent' = Ev("fetchReject", <<tasks[i]>>)
  /\ CatchFinally(i)

\* the fetch of task i resolves with res; lines 78-98 up to the second await
FetchResolves(i, res) ==
  /\ tasks[i].pc = "fetch"
  /\ tasks' = [tasks EXCEPT ![i] = [@ EXCEPT !.pc = "read", !.res = <<res>>]]
  /\ lastEvent' = Ev("fetchResolve", <<tasks[i]>>)
  /\ UNCHANGED <<webhookUrl, selectedFile, isLoading, response, isDragging,
                 toasts, handles, saved>>

\* the body reader of task i rejects (stream error, or invalid JSON)
ReadRejects(i) ==
  /\ tasks[i].pc = "read"
  /\ lastEvent' = Ev("readReject", <<tasks[i]>>)
  /\ CatchFinally(i)

\* the body reader of task i resolves; lines 88-117 and finally
ReadResolves(i) ==
  /\ tasks[i].pc = "read"
  /\ ~ReadMustFail(tasks[i].res[1])
  /\ response' = <<WebhookResponse(tasks[i].res[1])>>
  /\ toasts' = SuccessToast(tasks[i].res[1].status)
  /\ isLoading' = FALSE
  /\ tasks' = RemoveAt(tasks, i)
  /\ lastEvent' = Ev("stored", <<tasks[i]>>)
  /\ UNCHANGED <<webhookUrl, selectedFile, isDragging, handles, saved>>

(* ----------------------------- downloadFile ---------------------------- *)

\* URL.createObjectURL: a handle not in use
NewHandle(hs) == CHOOSE n \in 1..(Cardinality(hs) + 1) : n \notin hs

\* variant: the object URL is never revoked
downloadFileNoRevoke ==
  IF response # <<>> /\ response[1].isFile /\ response[1].data.kind = "blob"
  THEN LET url == NewHandle(handles)
       IN  /\ saved' = <<[name |-> IF response[1].fileName # <<>>
                                   THEN response[1].fileName
                                   ELSE DefaultName,
                          blob |-> response[1].data.raw]>>
           /\ handles' = handles \cup {url}
           /\ lastEvent' = Ev("download", <<>>)
           /\ UNCHANGED <<webhookUrl, selectedFile, isLoading, response,
                          isDragging, tasks, toasts>>
  ELSE /\ lastEvent' = Ev("downloadNoop", <<>>)
       /\ UNCHANGED <<webhookUrl, selectedFile, isLoading, response,
                      isDragging, tasks, toasts, handles, saved>>

downloadFile ==
  IF response # <<>> /\ response[1].isFile /\ response[1].data.kind = "blob"
  THEN LET url == NewHandle(handles)
       IN  /\ saved' = <<[name |-> IF response[1].fileName # <<>>
                                   THEN response[1].fileName
                                   ELSE DefaultName,
                          blob |-> response[1].data.raw]>>
           /\ handles' = (handles \cup {url}) \ {url}
           /\ lastEvent' = Ev("download", <<>>)
           /\ UNCHANGED <<webhookUrl, selectedFile, isLoading, response,
                          isDragging, tasks, toasts>>
  ELSE /\ lastEvent' = Ev("downloadNoop", <<>>)
       /\ UNCHANGED <<webhookUrl, selectedFile, isLoading, response,
                      isDragging, tasks, toasts, handles, saved>>

(* ------------------------------ rendering ------------------------------ *)

\* variant: the loading flag is not part of the disabled condition
ButtonDisabledIgnoresLoading == webhookUrl = "" \/ selectedFile = NullFile

\* disabled={!webhookUrl || !selectedFile || isLoading}
ButtonDisabled == webhookUrl = "" \/ selectedFile = NullFile \/ isLoading

\* the Baixar button is rendered only inside response && response.isFile
DownloadButtonShown == response # <<>> /\ response[1].isFile

\* Arquivo: {response.fileName || 'download'}
ShownFileName ==
  IF response[1].fileName # <<>> THEN response[1].fileName ELSE DefaultName

(* ------------------------------- events -------------------------------- *)

TypeUrl == \E v \in Urls : v # webhookUrl /\ setWebhookUrl(v)
DragOver == handleDragOver
DragLeave == handleDragLeave
Drop == \E fs \in FileLists : handleDrop(fs)
FileSelect == \E fs \in FileLists : handleFileSelect(fs)
ClickSubmit == ~ButtonDisabled /\ sendWebhook
ClickDownload == DownloadButtonShown /\ downloadFile
FetchSettles ==
  \E i \in 1..Len(tasks) :
     FetchRejects(i) \/ \E res \in ServerResponses : FetchResolves(i, res)
ReadSettles == \E i \in 1..Len(tasks) : ReadRejects(i) \/ ReadResolves(i)

\* the handlers called by a caller that honours only the loading flag
CallSendWebhook == ~isLoading /\ sendWebhook
CallDownloadFile == downloadFile

Next ==
  \/ TypeUrl
  \/ DragOver
  \/ DragLeave
  \/ Drop
  \/ FileSelect
  \/ ClickSubmit
  \/ ClickDownload
  \/ FetchSettles
  \/ ReadSettles

Spec == Init /\ [][Next]_vars

NextHandler ==
  \/ TypeUrl
  \/ DragOver
  \/ DragLeave
  \/ Drop
  \/ FileSelect
  \/ CallSendWebhook
  \/ CallDownloadFile
  \/ FetchSettles
  \/ ReadSettles

SpecHandler == Init /\ [][NextHandler]_vars

(* ------------------------------ properties ----------------------------- *)

FormEvents == {"setUrl", "dragOver", "dragLeave", "drop", "fileSelect"}
FailureEvents == {"fetchReject", "readReject"}

\* C1: in every reachable state at most one request issued by sendWebhook is
\* in flight, and while one is in flight the submit button is disabled.
C1_AtMostOneInFlight ==
  /\ Len(tasks) <= 1
  /\ (Len(tasks) > 0 => ButtonDisabled)

\* a request is outstanding while the form is complete (URL and file present)
C1_Witness ==
  /\ Len(tasks) = 1
  /\ tasks[1].pc = "fetch"
  /\ webhookUrl # ""
  /\ selectedFile # NullFile
  /\ lastEvent.name = "fileSelect"

\* C2: a call of sendWebhook with an empty URL or without a selected file
\* raises the validation toast in the same step, starts no request, does not
\* set the loading flag and leaves URL, file and result unchanged.
C2_ValidationFailsFast ==
  [][ (/\ lastEvent'.name \in {"validation", "submit"}
       /\ (webhookUrl = "" \/ selectedFile = NullFile))
      => /\ lastEvent'.name = "validation"
         /\ toasts' = ValidationToast
         /\ tasks' = tasks
         /\ isLoading' = FALSE
         /\ webhookUrl' = webhookUrl
         /\ selectedFile' = selectedFile
         /\ response' = response ]_vars

\* a validation failure with a URL but no file, a result being displayed
C2_Witness ==
  /\ lastEvent.name = "validation"
  /\ toasts = ValidationToast
  /\ webhookUrl # ""
  /\ selectedFile = NullFile
  /\ tasks = <<>>
  /\ ~isLoading

\* C3: when the fetch of a submission rejects, the result is left as it was
\* (none is produced), the generic failure toast is raised, the loading flag
\* is false and the button is enabled again if URL and file are present.
C3_NetworkFailure ==
  [][ lastEvent'.name = "fetchReject"
      => /\ response' = response
         /\ toasts' = FailureToast
         /\ isLoading' = FALSE
         /\ tasks' = <<>>
         /\ ((webhookUrl' # "" /\ selectedFile' # NullFile)
               => ~ButtonDisabled') ]_vars

\* a fetch has just rejected and the button is enabled again
C3_Witness ==
  /\ lastEvent.name = "fetchReject"
  /\ toasts = FailureToast
  /\ ~isLoading
  /\ ~ButtonDisabled

\* String.prototype.startsWith
StartsWith(s, sub) ==
  Len(sub) <= Len(s) /\ SubSeq(s, 1, Len(sub)) = sub

\* the classification C4 states: binary only for a content type that STARTS
\* with application/
ClaimedKind(contentType) ==
  IF /\ StartsWith(contentType, AppSlash)
     /\ ~Includes(contentType, JsonStr)
     /\ ~Includes(contentType, TextStr)
  THEN "blob"
  ELSE IF Includes(contentType, JsonStr) THEN "json"
  ELSE "text"

\* C4: the body is binary exactly when the content type starts with
\* application/ and contains neither json nor text, else structured exactly
\* when it contains json, else plain text; a binary body is read only as a
\* blob and has isFile = TRUE, every other result has isFile = FALSE.
C4_ClassificationByPrefix ==
  response # <<>> =>
    /\ response[1].data.kind = ClaimedKind(response[1].contentType)
    /\ response[1].isFile = (ClaimedKind(response[1].contentType) = "blob")

\* C5: when the body of a response whose content type contains json does not
\* parse, the failure toast is raised, no result is created from that
\* response and the loading flag is cleared.
C5_ParseFailureReported ==
  [][ (/\ lastEvent'.name \in {"readReject", "stored"}
       /\ Includes(ContentTypeOf(lastEvent'.task[1].res[1]), JsonStr)
       /\ JsonParse(lastEvent'.task[1].res[1].body) = <<>>)
      => /\ lastEvent'.name = "readReject"
         /\ toasts' = FailureToast
         /\ response' = response
         /\ isLoading' = FALSE ]_vars

\* the read of an application/json body that is not JSON has just settled
C5_Witness ==
  /\ lastEvent.name = "readReject"
  /\ ContentTypeOf(lastEvent.task[1].res[1]) = CtJson
  /\ lastEvent.task[1].res[1].body = BodyOops
  /\ toasts = FailureToast
  /\ ~isLoading

\* C6: a submission that ends in a failure leaves no result of an earlier
\* submission as the current (displayed) result.
C6_ResultDiscardedOnFailure ==
  lastEvent.name \in FailureEvents => response = <<>>

\* C7: for a binary result the file name is the value matched after
\* filename= (quotes optional) in content-disposition, x.pdf for
\* attachment; filename="x.pdf"; without the header or without a match the
\* name shown and the name used by the download is "download".
C7_SuggestedFileName ==
  (response # <<>> /\ response[1].isFile) =>
    LET cd == HeadersGet(response[1].headers, CdName)
        name == response[1].fileName
    IN  /\ (cd \in {CdQuoted, CdBare} => ShownFileName = XPdf)
        /\ ((cd = Null \/ cd = CdEmptyName \/ ~Includes(cd, FilenameEq))
              => ShownFileName = DefaultName)
        /\ (name \notin {<<>>, DefaultName}
              => /\ \A k \in 1..Len(name) : name[k] # Quote
                 /\ \/ Includes(cd, FilenameEq \o name)
                    \/ Includes(cd, FilenameEq \o <<Quote>> \o name))
        /\ (lastEvent.name = "download" => saved[1].name = ShownFileName)

\* the quoted x.pdf has been extracted and used by a download
C7_Witness ==
  /\ response # <<>>
  /\ response[1].isFile
  /\ HeadersGet(response[1].headers, CdName) = CdQuoted
  /\ response[1].fileName = XPdf
  /\ lastEvent.name = "download"
  /\ saved[1].name = XPdf

\* C8: downloadFile saves only when the current result is binary and holds a
\* blob, and no object URL it created is left unreleased after it.
C8_HandlesReleased ==
  /\ handles = {}
  /\ (lastEvent.name = "download"
        => /\ response # <<>>
           /\ response[1].isFile
           /\ response[1].data.kind = "blob"
           /\ saved = <<[name |-> ShownFileName,
                         blob |-> response[1].data.raw]>>)
  /\ (lastEvent.name = "downloadNoop"
        => (response = <<>> \/ ~response[1].isFile))

\* a download has run for a result without content-disposition
C8_Witness ==
  /\ lastEvent.name = "download"
  /\ saved # <<>>
  /\ saved[1].name = DefaultName
  /\ response[1].fileName = <<>>
  /\ handles = {}

\* C9: a request in flight keeps the URL and file of the moment of its
\* submission; form edits change no request and start none; the result
\* stored is built from the response to that request.
C9_RequestNotMutated ==
  [][ /\ (lastEvent'.name \in FormEvents => tasks' = tasks)
      /\ (Len(tasks') > Len(tasks)
            => /\ lastEvent'.name = "submit"
               /\ tasks' = Append(tasks, tasks'[Len(tasks')])
               /\ tasks'[Len(tasks')].url = webhookUrl
               /\ tasks'[Len(tasks')].file = selectedFile)
      /\ (Len(tasks') = Len(tasks)
            => \A i \in 1..Len(tasks) :
                  /\ tasks'[i].url = tasks[i].url
                  /\ tasks'[i].file = tasks[i].file)
      /\ (Len(tasks') < Len(tasks)
            => \E i \in 1..Len(tasks) :
                  /\ tasks' = RemoveAt(tasks, i)
                  /\ lastEvent'.task = <<tasks[i]>>)
      /\ (lastEvent'.name = "stored"
            => response'[1].status = lastEvent'.task[1].res[1].status
               /\ response'[1].headers = lastEvent'.task[1].res[1].headers)
    ]_vars

\* URL and file were both changed while the request was outstanding
C9_Witness ==
  /\ Len(tasks) = 1
  /\ tasks[1].pc = "read"
  /\ tasks[1].url # webhookUrl
  /\ webhookUrl # ""
  /\ tasks[1].file # selectedFile

\* C10: isLoading is true exactly while a validated submission has a fetch
\* or a body read that has not settled, hence false after every outcome, and
\* a settled submission leaves the button enabled when URL and file are set.
C10_LoadingTracksRequest ==
  /\ isLoading = (Len(tasks) > 0)
  /\ (lastEvent.name \in FailureEvents \cup {"stored"} => ~isLoading)
  /\ ((tasks = <<>> /\ webhookUrl # "" /\ selectedFile # NullFile)
        => ~ButtonDisabled)

\* a result has just been stored and the button is enabled again
C10_Witness ==
  /\ lastEvent.name = "stored"
  /\ response # <<>>
  /\ ~isLoading
  /\ ~ButtonDisabled

====
